---- MODULE Spec2Model ----
(***************************************************************************)
(* rss2mastodon: the configuration (package config and the flags of the    *)
(* root command), the poll loop (Run), the per-item handler (handlePost),  *)
(* the SQLite history table (package db), the content hash and the feed    *)
(* reader (package rss) and the notifier (package mastodon), as one state  *)
(* machine.                                                                *)
(***************************************************************************)
EXTENDS Integers, Sequences, FiniteSets, TLC

(***************************************************************************)
(* Bounds of the model.                                                    *)
(***************************************************************************)
MaxFeedLen == 2
MaxFetches == 2
MaxStarts == 2
MaxNow == 60

(***************************************************************************)
(* The inputs: what the feed may contain.                                  *)
(***************************************************************************)
Links == {"https://x/1", "https://x/2"}
Bodies == {"", "hello", "hello world"}
\* the title of the post at each link
TitleOf == [l \in Links |-> IF l = "https://x/1" THEN "Thoughts on x" ELSE "Test Post"]

\* rss.RSSItem
RSSItem == {[Title |-> TitleOf[l], Link |-> l, Content |-> b] : l \in Links, b \in Bodies}

RECURSIVE SeqsUpTo(_, _)
SeqsUpTo(S, n) ==
    IF n = 0 THEN {<<>>}
    ELSE LET shorter == SeqsUpTo(S, n - 1)
         IN  shorter \cup {Append(s, x) : s \in {t \in shorter : Len(t) = n - 1}, x \in S}

Feeds == SeqsUpTo(RSSItem, MaxFeedLen)

(***************************************************************************)
(* []byte(content): the bytes of a string of printable ASCII characters.   *)
(***************************************************************************)
AsciiLow == " !\"#$%&'()*+,-./0123456789:;<=>?@ABCDEFGHIJKLMNOPQRSTUVWXYZ[\\]^_"
AsciiHigh == "abcdefghijklmnopqrstuvwxyz{|}~"

Index(chars, c) == CHOOSE i \in 1..Len(chars) : SubSeq(chars, i, i) = c

Code(c) ==
    IF \E i \in 1..Len(AsciiLow) : SubSeq(AsciiLow, i, i) = c
    THEN 31 + Index(AsciiLow, c)
    ELSE 96 + Index(AsciiHigh, c)

Bytes(s) == [i \in 1..Len(s) |-> Code(SubSeq(s, i, i))]

(***************************************************************************)
(* crypto/sha256 on 32-bit words kept as <<high 16 bits, low 16 bits>>.    *)
(***************************************************************************)
RECURSIVE AndBits(_, _, _)
AndBits(a, b, n) ==
    IF n = 0 THEN 0
    ELSE ((a % 2) * (b % 2)) + 2 * AndBits(a \div 2, b \div 2, n - 1)

AndNibble == [a \in 0..15 |-> [b \in 0..15 |-> AndBits(a, b, 4)]]

AND16(a, b) ==
    AndNibble[a \div 4096][b \div 4096] * 4096
    + AndNibble[(a \div 256) % 16][(b \div 256) % 16] * 256
    + AndNibble[(a \div 16) % 16][(b \div 16) % 16] * 16
    + AndNibble[a % 16][b % 16]

XOR16(a, b) == a + b - 2 * AND16(a, b)

Xor(x, y) == <<XOR16(x[1], y[1]), XOR16(x[2], y[2])>>
And(x, y) == <<AND16(x[1], y[1]), AND16(x[2], y[2])>>
Not(x) == <<65535 - x[1], 65535 - x[2]>>
Add(x, y) ==
    LET lo == x[2] + y[2]
        hi == x[1] + y[1] + (lo \div 65536)
    IN  <<hi % 65536, lo % 65536>>

RotR(x, n) ==
    LET hi == IF n >= 16 THEN x[2] ELSE x[1]
        lo == IF n >= 16 THEN x[1] ELSE x[2]
        k == n % 16
        p == 2 ^ k
        q == 2 ^ (16 - k)
    IN  <<(hi \div p) + (lo % p) * q, (lo \div p) + (hi % p) * q>>

ShR(x, n) ==
    LET p == 2 ^ n
        q == 2 ^ (16 - n)
    IN  <<x[1] \div p, (x[2] \div p) + (x[1] % p) * q>>

BigSigma0(x) == Xor(Xor(RotR(x, 2), RotR(x, 13)), RotR(x, 22))
BigSigma1(x) == Xor(Xor(RotR(x, 6), RotR(x, 11)), RotR(x, 25))
SmallSigma0(x) == Xor(Xor(RotR(x, 7), RotR(x, 18)), ShR(x, 3))
SmallSigma1(x) == Xor(Xor(RotR(x, 17), RotR(x, 19)), ShR(x, 10))
Ch(x, y, z) == Xor(And(x, y), And(Not(x), z))
Maj(x, y, z) == Xor(Xor(And(x, y), And(x, z)), And(y, z))

K == << <<17034,12184>>, <<28983,17553>>, <<46528,64463>>, <<59829,56229>>, <<14678,49755>>, <<23025,4593>>, <<37439,33444>>, <<43804,24277>>, <<55303,43672>>, <<4739,23297>>, <<9265,34238>>, <<21772,32195>>, <<29374,23924>>, <<32990,45566>>, <<39900,1703>>, <<49563,61812>>, <<58523,27073>>, <<61374,18310>>, <<4033,40390>>, <<9228,41420>>, <<11753,11375>>, <<19060,33962>>, <<23728,43484>>, <<30457,35034>>, <<38974,20818>>, <<43057,50797>>, <<45059,10184>>, <<48985,32711>>, <<50912,3059>>, <<54695,37191>>, <<1738,25425>>, <<5161,10599>>, <<10167,2693>>, <<11803,8504>>, <<19756,28156>>, <<21304,3347>>, <<25866,29524>>, <<30314,2747>>, <<33218,51502>>, <<37490,11397>>, <<41663,59553>>, <<43034,26187>>, <<49739,35696>>, <<51052,20899>>, <<53650,59417>>, <<54937,1572>>, <<62478,13701>>, <<4202,41072>>, <<6564,49430>>, <<7735,27656>>, <<10056,30540>>, <<13488,48309>>, <<14620,3251>>, <<20184,43594>>, <<23452,51791>>, <<26670,28659>>, <<29839,33518>>, <<30885,25455>>, <<33992,30740>>, <<36039,520>>, <<37054,65530>>, <<42064,27883>>, <<48889,41975>>, <<50801,30962>> >>

H0 == << <<27145,58983>>, <<47975,44677>>, <<15470,62322>>, <<42319,62778>>, <<20750,21119>>, <<39685,26764>>, <<8067,55723>>, <<23520,52505>> >>

Zeros(n) == [i \in 1..n |-> 0]

Pad(m) ==
    LET L == Len(m)
        z == (119 - (L % 64)) % 64
        bits == L * 8
    IN  m \o <<128>> \o Zeros(z) \o <<0, 0, 0, 0>>
          \o <<(bits \div 16777216) % 256, (bits \div 65536) % 256,
               (bits \div 256) % 256, bits % 256>>

BlockWords(p, k) ==
    [j \in 1..16 |->
        LET o == 64 * (k - 1) + 4 * (j - 1)
        IN  <<p[o + 1] * 256 + p[o + 2], p[o + 3] * 256 + p[o + 4]>>]

RECURSIVE Schedule(_)
Schedule(w) ==
    IF Len(w) = 64 THEN w
    ELSE LET t == Len(w) + 1
             nw == Add(Add(SmallSigma1(w[t - 2]), w[t - 7]),
                       Add(SmallSigma0(w[t - 15]), w[t - 16]))
         IN  Schedule(Append(w, nw))

RECURSIVE Rounds(_, _, _)
Rounds(s, w, t) ==
    IF Len(s) # 8 \/ t > 64 THEN s
    ELSE LET t1 == Add(Add(Add(s[8], BigSigma1(s[5])), Add(Ch(s[5], s[6], s[7]), K[t])), w[t])
             t2 == Add(BigSigma0(s[1]), Maj(s[1], s[2], s[3]))
         IN  Rounds(<<Add(t1, t2), s[1], s[2], s[3], Add(s[4], t1), s[5], s[6], s[7]>>, w, t + 1)

Compress(h, blk) ==
    LET w == Schedule(blk)
        s == Rounds(h, w, 1)
    IN  [i \in 1..8 |-> Add(h[i], s[i])]

RECURSIVE Blocks(_, _, _)
Blocks(h, p, k) ==
    IF 64 * (k - 1) >= Len(p) THEN h
    ELSE Blocks(Compress(h, BlockWords(p, k)), p, k + 1)

Sum256(m) ==
    LET h == Blocks(H0, Pad(m), 1)
    IN  [i \in 1..32 |->
            LET wd == h[((i - 1) \div 4) + 1]
                r == (i - 1) % 4
            IN  IF r = 0 THEN wd[1] \div 256
                ELSE IF r = 1 THEN wd[1] % 256
                ELSE IF r = 2 THEN wd[2] \div 256
                ELSE wd[2] % 256]

HexDigits == <<"0","1","2","3","4","5","6","7","8","9","a","b","c","d","e","f">>
\* a slip: each byte is printed with %x on its own, without the leading zero
RECURSIVE HexNoPad(_)
HexNoPad(bs) ==
    IF bs = <<>> THEN ""
    ELSE (IF Head(bs) < 16 THEN "" ELSE HexDigits[(Head(bs) \div 16) + 1])
           \o HexDigits[(Head(bs) % 16) + 1] \o HexNoPad(Tail(bs))

\* fmt.Sprintf("%x", hash) of a [32]byte
RECURSIVE Hex(_)
Hex(bs) ==
    IF bs = <<>> THEN ""
    ELSE HexDigits[(Head(bs) \div 16) + 1] \o HexDigits[(Head(bs) % 16) + 1] \o Hex(Tail(bs))


(***************************************************************************)
(* package rss                                                             *)
(***************************************************************************)
\* a slip: only the first four bytes of the content are hashed
HashContentFirstBytes(content) ==
    Sum256(Bytes(SubSeq(content, 1, IF Len(content) < 4 THEN Len(content) ELSE 4)))

\* rss.HashContent: sha256.Sum256([]byte(content))
HashContent(content) == Sum256(Bytes(content))

\* fmt.Sprintf("%x", rss.HashContent(content)) for every body of the model
HexHash == [content \in Bodies |-> Hex(HashContent(content))]

VARIABLE hashes   \* HexHash, computed once when the model starts

\* what the HTTP GET of rss.CheckRSSFeed can end in: a transport error, or a
\* response with a status and a body the XML decoder accepts or rejects,
\* having filled in the items it read until then
FeedStatusCodes == {200, 404}
FeedResponses ==
    {[err |-> TRUE, StatusCode |-> 0, decodeErr |-> FALSE, Items |-> <<>>]}
        \cup {[err |-> FALSE, StatusCode |-> c, decodeErr |-> d, Items |-> items] :
                 c \in FeedStatusCodes, d \in BOOLEAN, items \in Feeds}

\* which return of rss.CheckRSSFeed a response takes
Outcome(response) ==
    IF response.err THEN "transport"
    ELSE IF response.StatusCode # 200 THEN "status"
    ELSE IF response.decodeErr THEN "decode"
    ELSE "items"

\* a slip: the status of the response is not looked at
CheckRSSFeedAnyStatus(response) ==
    IF response.err \/ response.decodeErr
    THEN [posts |-> <<>>, err |-> TRUE]
    ELSE [posts |-> response.Items, err |-> FALSE]

\* rss.CheckRSSFeed: the items and the error it returns
CheckRSSFeed(response) ==
    IF response.err \/ response.StatusCode # 200 \/ response.decodeErr
    THEN [posts |-> <<>>, err |-> TRUE]
    ELSE [posts |-> response.Items, err |-> FALSE]

\* Run after rss.CheckRSSFeed: on an error the loop continues with the
\* next call of rss.CheckRSSFeed
AfterFetch(err) == IF err THEN "fetch" ELSE "range"

(***************************************************************************)
(* package mastodon                                                        *)
(***************************************************************************)
\* strings.HasPrefix
HasPrefix(s, prefix) ==
    /\ Len(s) >= Len(prefix)
    /\ SubSeq(s, 1, Len(prefix)) = prefix

\* a slip: the title is not looked at
GetTootContentGeneric(p) == "New blog post: " \o p.Link

\* mastodon.GetTootContent
GetTootContent(p) ==
    IF HasPrefix(p.Title, "Thoughts")
    THEN p.Content \o " - " \o p.Link
    ELSE "New blog post: " \o p.Link

\* what the HTTP exchange of TootPost can end in: http.NewRequest fails,
\* client.Do fails, or a response comes with a status
StatusCodes == {200, 201, 401, 500}
HTTPResults ==
    {[requestErr |-> TRUE, err |-> FALSE, StatusCode |-> 0],
     [requestErr |-> FALSE, err |-> TRUE, StatusCode |-> 0]}
        \cup {[requestErr |-> FALSE, err |-> FALSE, StatusCode |-> c] :
                 c \in StatusCodes}

\* mastodon.TootPost goes as far as the HTTP exchange
Sent(mastodonURL, mastodonToken) == mastodonURL # "" /\ mastodonToken # ""

\* the server answered 200 OK: the status was created
Delivered(result) == ~result.requestErr /\ ~result.err /\ result.StatusCode = 200

\* a slip: any response counts as success, whatever its status
TootPostAnyResponse(mastodonURL, mastodonToken, result) ==
    \/ mastodonURL = "" \/ mastodonToken = ""
    \/ result.requestErr
    \/ result.err

\* mastodon.TootPost: TRUE when it returns a non-nil error
TootPost(mastodonURL, mastodonToken, result) ==
    \/ mastodonURL = "" \/ mastodonToken = ""
    \/ result.requestErr
    \/ result.err
    \/ result.StatusCode # 200

(***************************************************************************)
(* package db: the table tooted_posts is a set of rows.                    *)
(***************************************************************************)
\* a slip: the table has no primary key, the row is added
InsertNoKey(table, row) == table \cup {row}

\* INSERT OR REPLACE INTO tooted_posts under PRIMARY KEY (link)
InsertOrReplace(table, row) ==
    {r \in table : r.link # row.link} \cup {row}

\* SELECT content_hash FROM tooted_posts WHERE link = ?
SelectContentHash(table, link) ==
    {r.content_hash : r \in {q \in table : q.link = link}}

\* a slip: the stored hash is compared with the content, not with its hash
HasPostChangedNoHash(table, link, content, scanErr) ==
    LET found == SelectContentHash(table, link)
    IN  IF scanErr
        THEN [exists |-> FALSE, updated |-> FALSE, err |-> TRUE]
        ELSE IF found = {}
        THEN [exists |-> FALSE, updated |-> FALSE, err |-> FALSE]
        ELSE IF (CHOOSE storedHash \in found : TRUE) # content
        THEN [exists |-> TRUE, updated |-> TRUE, err |-> FALSE]
        ELSE [exists |-> TRUE, updated |-> FALSE, err |-> FALSE]

\* a slip: every error of row.Scan is taken as sql.ErrNoRows
HasPostChangedErrAsNew(table, link, content, scanErr) ==
    LET found == SelectContentHash(table, link)
        newHash == hashes[content]
    IN  IF scanErr \/ found = {}
        THEN [exists |-> FALSE, updated |-> FALSE, err |-> FALSE]
        ELSE IF (CHOOSE storedHash \in found : TRUE) # newHash
        THEN [exists |-> TRUE, updated |-> TRUE, err |-> FALSE]
        ELSE [exists |-> TRUE, updated |-> FALSE, err |-> FALSE]

\* a slip: a post without content is taken as a post without a row
HasPostChangedEmptyAbsent(table, link, content, scanErr) ==
    LET found == SelectContentHash(table, link)
        newHash == hashes[content]
    IN  IF scanErr
        THEN [exists |-> FALSE, updated |-> FALSE, err |-> TRUE]
        ELSE IF found = {} \/ content = ""
        THEN [exists |-> FALSE, updated |-> FALSE, err |-> FALSE]
        ELSE IF (CHOOSE storedHash \in found : TRUE) # newHash
        THEN [exists |-> TRUE, updated |-> TRUE, err |-> FALSE]
        ELSE [exists |-> TRUE, updated |-> FALSE, err |-> FALSE]

\* db.HasPostChanged: scanErr is row.Scan failing with an error other than
\* sql.ErrNoRows
HasPostChanged(table, link, content, scanErr) ==
    LET found == SelectContentHash(table, link)
        newHash == hashes[content]
    IN  IF scanErr
        THEN [exists |-> FALSE, updated |-> FALSE, err |-> TRUE]
        ELSE IF found = {}
        THEN [exists |-> FALSE, updated |-> FALSE, err |-> FALSE]
        ELSE IF (CHOOSE storedHash \in found : TRUE) # newHash
        THEN [exists |-> TRUE, updated |-> TRUE, err |-> FALSE]
        ELSE [exists |-> TRUE, updated |-> FALSE, err |-> FALSE]

\* a slip: every existing post is taken as updated
SwitchNoDefault(exists, updated) == IF exists THEN "UPDATED" ELSE "NEW"

\* a slip: the default case falls into the case of a new post
SwitchDefaultNew(exists, updated) ==
    IF exists /\ updated THEN "UPDATED" ELSE "NEW"

\* the switch of handlePost on (exists, updated)
Switch(exists, updated) ==
    IF exists /\ updated THEN "UPDATED"
    ELSE IF ~exists THEN "NEW"
    ELSE "UNCHANGED"

\* a slip: the error of TootPost is logged and handlePost goes on
AfterTootIgnoreErr(err) == "store"

\* a slip: the error of TootPost ends the process
AfterTootFatal(err) == IF err THEN "exited" ELSE "store"

\* a slip: the error of TootPost breaks out of the loop over the posts
AfterTootBreak(err) == IF err THEN "sleep" ELSE "store"

\* handlePost after mastodon.TootPost: return on an error, else go on to
\* db.StoreTootedPost
AfterToot(err) == IF err THEN "range" ELSE "store"

\* a slip: the error of InitDB is logged and Run goes on
AfterInitDBLogError(err) == "settings"

\* Run after db.InitDB: log.Fatal ends the process on an error of sql.Open
\* or of db.Exec, else Run goes on to the loop
AfterInitDB(err) == IF err THEN "exited" ELSE "settings"

\* the handle InitDB leaves in the package variable db: sql.Open has
\* assigned it before db.Exec is called
OpenedDB(openErr) == IF openErr THEN "nil" ELSE "open"

\* db.CloseDB: db.Close() on the handle
CloseDB(handle) == IF handle = "open" THEN "closed" ELSE handle

\* a slip: the table is dropped and created again at every start
CreateTable(exists, table) == {}

\* CREATE TABLE IF NOT EXISTS tooted_posts: the rows of the table afterwards
CreateTableIfNotExists(exists, table) == IF exists THEN table ELSE {}

\* a slip: the content is stored, not its hash
TootedRowRaw(link, content, t) ==
    [link |-> link, content_hash |-> content, timestamp |-> t]

\* the row db.StoreTootedPost writes
TootedRow(link, content, t) ==
    [link |-> link, content_hash |-> hashes[content], timestamp |-> t]

\* db.StoreTootedPost: the table after db.Exec succeeded
StoreTootedPost(table, link, content, t) ==
    InsertOrReplace(table, TootedRow(link, content, t))

\* a slip: the error of StoreTootedPost ends the process
AfterStoreFatal(err) == IF err THEN "exited" ELSE "range"

\* handlePost after db.StoreTootedPost: the error is logged, and handlePost
\* returns to the loop of Run either way
AfterStore(err) == "range"

\* the interval of the loop, in minutes (envDefault of Config.Interval)
Interval == 60

(***************************************************************************)
(* package config and the flags of the root command.  An unset variable    *)
(* is "", an unset INTERVAL and an --interval not given are <<>>.          *)
(***************************************************************************)
\* the Config before env.Parse
NoConf ==
    [MastodonURL |-> "", MastodonAccessToken |-> "", GotifyURL |-> "",
     GotifyToken |-> "", FeedURL |-> "", Interval |-> 0, Category |-> ""]

\* env.Parse(&conf): each field from the variable its tag names
Parse(env) ==
    [MastodonURL |-> env.MASTODON_URL,
     MastodonAccessToken |-> env.MASTODON_ACCESS_TOKEN,
     GotifyURL |-> env.GOTIFY_URL,
     GotifyToken |-> env.GOTIFY_TOKEN,
     FeedURL |-> env.FEED_URL,
     Interval |-> IF env.INTERVAL = <<>> THEN Interval ELSE env.INTERVAL[1],
     Category |-> env.CATEGORY]

\* config.GetEnvVars: the Config and the error it returns
GetEnvVars(env) ==
    LET conf == Parse(env)
    IN  IF \/ conf.MastodonURL = ""
           \/ conf.MastodonAccessToken = ""
           \/ conf.GotifyURL = ""
           \/ conf.GotifyToken = ""
        THEN [conf |-> NoConf, err |-> TRUE]
        ELSE [conf |-> conf, err |-> FALSE]

\* Run after config.GetEnvVars: log.Fatal ends the process on an error
AfterGetEnvVars(err) == IF err THEN "exited" ELSE "feedURL"

\* Run: feedURL, from conf.FeedURL and the flag --feed-url
FeedURL(confFeedURL, feedURLFlag) ==
    IF feedURLFlag # "" THEN feedURLFlag ELSE confFeedURL

\* a slip: an empty feed URL is let through
AfterFeedURLAny(url) == "InitDB"

\* Run after feedURL is known: log.Fatal ends the process when it is empty
AfterFeedURL(url) == IF url = "" THEN "exited" ELSE "InitDB"

\* the default of the flag --interval of the root command
IntervalFlagDefault == 60

\* cmd.Flags().GetInt("interval"): the default when the flag is not given
GetIntInterval(flag) == IF flag = <<>> THEN IntervalFlagDefault ELSE flag[1]

\* the interval Run falls back to
IntervalFallback == 60

\* the earlier Run: an interval that is not positive is only logged
EffectiveIntervalLogOnly(confInterval, intervalFlag) ==
    IF intervalFlag > 0 THEN intervalFlag ELSE confInterval

\* Run: interval, from conf.Interval and the value of the flag --interval
EffectiveInterval(confInterval, intervalFlag) ==
    LET chosen == IF intervalFlag > 0 THEN intervalFlag ELSE confInterval
    IN  IF chosen <= 0 THEN IntervalFallback ELSE chosen

\* Run: category, from conf.Category and the flag --category
Category(confCategory, categoryFlag) ==
    IF categoryFlag # "" THEN categoryFlag ELSE confCategory

\* the positions of the slashes of a link
Slashes(link) == {i \in 1..Len(link) : SubSeq(link, i, i) = "/"}

\* a slip: the whole link is searched for the category
WholeLink(link) == link

\* path.Base of a link that does not end in a slash: what follows its
\* last slash
PathBase(link) ==
    IF Slashes(link) = {} THEN link
    ELSE LET last == CHOOSE i \in Slashes(link) : \A j \in Slashes(link) : j <= i
         IN  SubSeq(link, last + 1, Len(link))

\* strings.Contains
Contains(s, substr) ==
    \E i \in 1..(Len(s) + 1) :
        /\ i + Len(substr) - 1 <= Len(s)
        /\ SubSeq(s, i, i + Len(substr) - 1) = substr

\* Run: the item is handed to handlePost
Passes(category, link) ==
    category = "" \/ Contains(PathBase(link), category)

\* the environment and the command line the program is started with when
\* nothing else is said: the required variables and FEED_URL are set
DefaultEnviron ==
    [MASTODON_URL |-> "https://m", MASTODON_ACCESS_TOKEN |-> "token",
     MASTODON_TOKEN |-> "", GOTIFY_URL |-> "https://g",
     GOTIFY_TOKEN |-> "gtoken", FEED_URL |-> "https://x/feed",
     INTERVAL |-> <<>>, CATEGORY |-> ""]
DefaultArgs == [feedURL |-> "", interval |-> <<>>, category |-> ""]

\* the environment of the README: MASTODON_URL, MASTODON_TOKEN, FEED_URL
ReadmeEnviron ==
    [DefaultEnviron EXCEPT !.MASTODON_ACCESS_TOKEN = "", !.MASTODON_TOKEN = "token",
                           !.GOTIFY_URL = "", !.GOTIFY_TOKEN = ""]

\* the environments and command lines of SpecConfigured: one setting is
\* varied at a time
EnvIntervals == {<<>>, <<0 - 1>>, <<0>>, <<5>>}
FlagIntervals == {<<>>, <<0 - 5>>, <<0>>, <<10>>}
EnvCategories == {"", "1", "x"}
FlagCategories == {"", "2"}
Configurations ==
    {<<e, DefaultArgs>> :
        e \in {[DefaultEnviron EXCEPT !.MASTODON_URL = ""],
               [DefaultEnviron EXCEPT !.MASTODON_ACCESS_TOKEN = ""],
               [DefaultEnviron EXCEPT !.GOTIFY_URL = ""],
               [DefaultEnviron EXCEPT !.GOTIFY_TOKEN = ""],
               ReadmeEnviron,
               [ReadmeEnviron EXCEPT !.MASTODON_TOKEN = ""]}}
    \cup {<<[DefaultEnviron EXCEPT !.FEED_URL = u], [DefaultArgs EXCEPT !.feedURL = f]>> :
            u \in {"", "https://x/feed"}, f \in {"", "https://y/feed"}}
    \cup {<<[DefaultEnviron EXCEPT !.INTERVAL = i], [DefaultArgs EXCEPT !.interval = f]>> :
            i \in EnvIntervals, f \in FlagIntervals}
    \cup {<<[DefaultEnviron EXCEPT !.CATEGORY = c], [DefaultArgs EXCEPT !.category = f]>> :
            c \in EnvCategories, f \in FlagCategories}

(***************************************************************************)
(* State.                                                                  *)
(***************************************************************************)
VARIABLES
    environ,      \* the environment variables of the process
    args,         \* the flags on its command line
    conf,         \* Run's local conf
    feedURL,      \* Run's local feedURL
    interval,     \* Run's local interval
    category,     \* Run's local category
    pc,           \* where Run is: "GetEnvVars", "feedURL", "InitDB",
                  \* "settings", "fetch", "range", "handle", "toot",
                  \* "store", "sleep", or "exited"
    db,           \* the package variable db: "nil", "open", "closed"
    tableExists,  \* the file tooted_posts.db has the table tooted_posts
    tooted_posts, \* the rows of the table, in the file
    posts,        \* the items the for loop of Run has still to visit
    post,         \* the loop variable of Run, handlePost's argument
    tootContent,  \* handlePost's local
    isUpdate,     \* handlePost's local
    now,          \* time.Now(), in minutes
    fetches,      \* calls of rss.CheckRSSFeed so far
    starts,       \* process starts so far
    ev,           \* the last call made and how it ended
    pre,          \* tooted_posts when the current handlePost was entered
    notified,     \* the links a successful TootPost was made for
    streak,       \* per link: the body of its latest items, the TootPost
                  \* calls made for it and whether it was committed
    lastFail,     \* per link: the latest TootPost failure, until the
                  \* cycle after it
    snapshot,     \* the items the latest rss.CheckRSSFeed returned
    calls,        \* the calls handlePost has made since that fetch, in order
    skipped,      \* per link: the latest item a call of handlePost failed
                  \* for, until the cycle after it
    carried,      \* the rows of the table when the process last ended
    contents,     \* two strings given to rss.HashContent
    sums,         \* what rss.HashContent returned for each of them
    previous,     \* the items of the cycle before, when every call of that
                  \* cycle succeeded
    cycle,        \* the cycle under way: its items, whether every call
                  \* succeeded, whether TootPost or StoreTootedPost was
                  \* called
    exchange      \* how the HTTP exchange of the latest TootPost ended

vars == <<pc, db, tableExists, tooted_posts, posts, post, tootContent,
          isUpdate, now, fetches, starts, ev, pre, notified, streak,
          lastFail, snapshot, calls, skipped, carried, contents, sums,
          previous, cycle, exchange, hashes, environ, args, conf, feedURL,
          interval, category>>

NoPost == [Title |-> "", Link |-> "", Content |-> ""]
NoPre == [valid |-> FALSE, table |-> {}]
NoStreak == [content |-> <<>>, calls |-> 0, committed |-> FALSE]
NoCycle == [items |-> <<>>, clean |-> TRUE, acted |-> FALSE]
NoExchange == [requestErr |-> FALSE, err |-> FALSE, StatusCode |-> 0]

\* the content_hash values the table holds for a link
HashesOf(table, link) == SelectContentHash(table, link)

\* the strings rss.HashContent is applied to on its own: the bodies of the
\* feed, the content of TestHashContent, a body one byte away from another,
\* and bodies of 55 and 56 bytes, on either side of a second block
HashInputs ==
    {"", "hello", "hellp", "hello world", "This is a test post",
     "0123456789012345678901234567890123456789012345678901234",
     "01234567890123456789012345678901234567890123456789012345"}

\* the program before Run has done anything
InitRun ==
    /\ pc = "GetEnvVars"
    /\ conf = NoConf
    /\ feedURL = ""
    /\ interval = 0
    /\ category = ""
    /\ db = "nil"
    /\ tableExists = FALSE
    /\ tooted_posts = {}
    /\ posts = <<>>
    /\ post = NoPost
    /\ tootContent = ""
    /\ isUpdate = FALSE
    /\ now = 0
    /\ fetches = 0
    /\ starts = 1
    /\ ev = [op |-> "none"]
    /\ pre = NoPre
    /\ notified = {}
    /\ streak = [l \in Links |-> NoStreak]
    /\ lastFail = [l \in Links |-> <<>>]
    /\ snapshot = <<>>
    /\ calls = <<>>
    /\ skipped = [l \in Links |-> <<>>]
    /\ carried = {}
    /\ previous = <<>>
    /\ cycle = NoCycle
    /\ exchange = NoExchange

Init ==
    /\ InitRun
    /\ environ = DefaultEnviron
    /\ args = DefaultArgs
    /\ hashes = HexHash
    /\ contents = <<"", "">>
    /\ sums = <<<<>>, <<>>>>

\* handlePost returns to the loop of Run: its locals are gone
Return ==
    /\ tootContent' = ""
    /\ isUpdate' = FALSE

\* Run: config.GetEnvVars; log.Fatal ends the process on its error
LoadConf ==
    /\ pc = "GetEnvVars"
    /\ LET loaded == GetEnvVars(environ)
       IN  /\ conf' = loaded.conf
           /\ pc' = AfterGetEnvVars(loaded.err)
           /\ ev' = [op |-> "GetEnvVars", ok |-> ~loaded.err]
    /\ UNCHANGED <<db, tableExists, tooted_posts, posts, post, tootContent,
                   isUpdate, now, fetches, starts, pre, notified, hashes,
                   environ, args, feedURL, interval, category>>

\* Run: the feed URL; log.Fatal ends the process when it is empty
ResolveFeedURL ==
    /\ pc = "feedURL"
    /\ feedURL' = FeedURL(conf.FeedURL, args.feedURL)
    /\ pc' = AfterFeedURL(feedURL')
    /\ ev' = [op |-> "feedURL", ok |-> feedURL' # ""]
    /\ UNCHANGED <<db, tableExists, tooted_posts, posts, post, tootContent,
                   isUpdate, now, fetches, starts, pre, notified, hashes,
                   environ, args, conf, interval, category>>

\* Run between db.InitDB and the loop: the interval and the category
Settings ==
    /\ pc = "settings"
    /\ interval' = EffectiveInterval(conf.Interval, GetIntInterval(args.interval))
    /\ category' = Category(conf.Category, args.category)
    /\ pc' = "fetch"
    /\ UNCHANGED <<db, tableExists, tooted_posts, posts, post, tootContent,
                   isUpdate, now, fetches, starts, ev, pre, notified, hashes,
                   environ, args, conf, feedURL>>

\* db.InitDB, called by Run; log.Fatal ends the process
InitDB ==
    /\ pc = "InitDB"
    /\ \E openErr \in BOOLEAN, execErr \in BOOLEAN :
         IF openErr \/ execErr
         THEN /\ pc' = AfterInitDB(TRUE)
              /\ db' = OpenedDB(openErr)
              /\ ev' = [op |-> "InitDB", ok |-> FALSE]
              /\ UNCHANGED <<tableExists, tooted_posts>>
         ELSE /\ pc' = AfterInitDB(FALSE)
              /\ db' = OpenedDB(FALSE)
              /\ tableExists' = TRUE
              /\ tooted_posts' = CreateTableIfNotExists(tableExists, tooted_posts)
              /\ ev' = [op |-> "InitDB", ok |-> TRUE]
    /\ UNCHANGED <<posts, post, tootContent, isUpdate, now, fetches, starts,
                   pre, notified, hashes, environ,
                   args, conf, feedURL, interval, category>>

\* rss.CheckRSSFeed at the top of the loop of Run; on an error the loop
\* continues
FetchFrom(responses) ==
    /\ pc = "fetch"
    /\ \E response \in responses :
         LET returned == CheckRSSFeed(response)
         IN  /\ posts' = returned.posts
             /\ pc' = AfterFetch(returned.err)
             /\ ev' = [op |-> "CheckRSSFeed", ok |-> ~returned.err,
                       outcome |-> Outcome(response)]
    /\ UNCHANGED <<db, tableExists, tooted_posts, post, tootContent,
                   isUpdate, now, starts, pre, notified, hashes, environ,
                   args, conf, feedURL, interval, category>>

\* the calls of rss.CheckRSSFeed are counted, up to MaxFetches
Fetch ==
    /\ fetches < MaxFetches
    /\ fetches' = fetches + 1
    /\ FetchFrom(FeedResponses)

\* for _, post := range posts
Range ==
    /\ pc = "range"
    /\ IF posts = <<>>
       THEN /\ pc' = "sleep"
            /\ UNCHANGED <<posts, post>>
       ELSE /\ post' = Head(posts)
            /\ posts' = Tail(posts)
            /\ pc' = IF Passes(category, Head(posts).Link) THEN "handle"
                     ELSE "range"
    /\ pre' = NoPre
    /\ UNCHANGED <<db, tableExists, tooted_posts, tootContent, isUpdate,
                   now, fetches, starts, ev, notified, hashes, environ,
                   args, conf, feedURL, interval, category>>

\* the failure lastFail holds for the post, when the post is the item that
\* failed
FailedBefore ==
    IF /\ lastFail[post.Link] # <<>>
       /\ lastFail[post.Link][1].content = post.Content
       /\ ~lastFail[post.Link][1].touched
    THEN IF lastFail[post.Link][1].age = 0 THEN "same cycle" ELSE "next cycle"
    ELSE "no"

\* handlePost up to the call of mastodon.TootPost
Classify ==
    /\ pc = "handle"
    /\ pre' = [valid |-> TRUE, table |-> tooted_posts]
    /\ \E scanErr \in BOOLEAN :
         LET r == HasPostChanged(tooted_posts, post.Link, post.Content, scanErr)
             decision == Switch(r.exists, r.updated)
         IN  IF r.err
             THEN /\ ev' = [op |-> "HasPostChanged", ok |-> FALSE,
                            scanErr |-> scanErr, retry |-> FailedBefore]
                  /\ pc' = "range"
                  /\ Return
             ELSE /\ ev' = [op |-> "HasPostChanged", ok |-> TRUE,
                            scanErr |-> scanErr,
                            exists |-> r.exists, updated |-> r.updated,
                            decision |-> decision, retry |-> FailedBefore]
                  /\ IF decision = "UPDATED"
                     THEN /\ tootContent' = "Blog post has been updated: " \o post.Link
                          /\ isUpdate' = TRUE
                          /\ pc' = "toot"
                     ELSE IF decision = "NEW"
                     THEN /\ tootContent' = GetTootContent(post)
                          /\ isUpdate' = FALSE
                          /\ pc' = "toot"
                     ELSE /\ pc' = "range"
                          /\ Return
    /\ UNCHANGED <<db, tableExists, tooted_posts, posts, post, now,
                   fetches, starts, notified, hashes, environ,
                   args, conf, feedURL, interval, category>>

\* handlePost: mastodon.TootPost, whose HTTP exchange ends in result, and
\* the return on its error
TootWith(result) ==
    /\ pc = "toot"
    /\   LET err == TootPost(conf.MastodonURL, conf.MastodonAccessToken, result)
         IN  /\ ev' = [op |-> "TootPost", ok |-> ~err, update |-> isUpdate,
                       content |-> tootContent]
             /\ pc' = AfterToot(err)
             /\ IF pc' = "range" THEN Return ELSE UNCHANGED <<tootContent, isUpdate>>
             /\ notified' = IF Sent(conf.MastodonURL, conf.MastodonAccessToken)
                                 /\ Delivered(result)
                            THEN notified \cup {post.Link}
                            ELSE notified
    /\ UNCHANGED <<db, tableExists, tooted_posts, posts, post, now,
                   fetches, starts, pre, hashes, environ,
                   args, conf, feedURL, interval, category>>

Toot == \E result \in HTTPResults : TootWith(result)

\* handlePost: db.StoreTootedPost after the successful toot
Store ==
    /\ pc = "store"
    /\ \E execErr \in BOOLEAN :
         /\ IF execErr
            THEN /\ ev' = [op |-> "StoreTootedPost", ok |-> FALSE, update |-> isUpdate]
                 /\ UNCHANGED tooted_posts
            ELSE /\ ev' = [op |-> "StoreTootedPost", ok |-> TRUE, update |-> isUpdate]
                 /\ tooted_posts' = StoreTootedPost(tooted_posts, post.Link,
                                                    post.Content, now)
         /\ pc' = AfterStore(execErr)
    /\ Return
    /\ UNCHANGED <<db, tableExists, posts, post, now, fetches, starts, pre,
                   notified, hashes, environ,
                   args, conf, feedURL, interval, category>>

\* time.Sleep(time.Duration(interval) * time.Minute)
SleepUntil(t) ==
    /\ pc = "sleep"
    /\ now' = t
    /\ pc' = "fetch"
    /\ ev' = [op |-> "Sleep"]
    /\ UNCHANGED <<db, tableExists, tooted_posts, posts, post, tootContent,
                   isUpdate, fetches, starts, pre, notified, hashes, environ,
                   args, conf, feedURL, interval, category>>

Sleep == SleepUntil(now + interval)

\* the process is stopped from outside, wherever it is: the deferred
\* db.CloseDB of Run runs only when Run returns, which its loop never does
Kill ==
    /\ pc # "exited"
    /\ pc' = "exited"
    /\ posts' = <<>>
    /\ post' = NoPost
    /\ Return
    /\ pre' = NoPre
    /\ ev' = [op |-> "Kill"]
    /\ conf' = NoConf
    /\ feedURL' = ""
    /\ interval' = 0
    /\ category' = ""
    /\ UNCHANGED <<db, tableExists, tooted_posts, now, fetches, starts,
                   notified, hashes, environ, args>>

\* the program is started again on the same tooted_posts.db
Start ==
    /\ pc = "exited"
    /\ starts < MaxStarts
    /\ starts' = starts + 1
    /\ pc' = "GetEnvVars"
    /\ db' = "nil"
    /\ ev' = [op |-> "Start"]
    /\ UNCHANGED <<tableExists, tooted_posts, posts, post, tootContent,
                   isUpdate, now, fetches, pre, notified, hashes, environ,
                   args, conf, feedURL, interval, category>>

(***************************************************************************)
(* The program alone: the bookkeeping of streak and lastFail is off.       *)
(***************************************************************************)
NoBookkeeping ==
    UNCHANGED <<streak, lastFail, snapshot, calls, skipped, carried,
                contents, sums, previous, cycle,
                exchange>>

RunLoadConf == LoadConf /\ NoBookkeeping
RunResolveFeedURL == ResolveFeedURL /\ NoBookkeeping
RunInitDB == InitDB /\ NoBookkeeping
RunSettings == Settings /\ NoBookkeeping
RunFetch == Fetch /\ NoBookkeeping
RunRange == Range /\ NoBookkeeping
RunClassify == Classify /\ NoBookkeeping
RunToot == Toot /\ NoBookkeeping
RunStore == Store /\ NoBookkeeping
RunSleep == Sleep /\ NoBookkeeping
RunKill == Kill /\ NoBookkeeping
RunStart == Start /\ NoBookkeeping

Next ==
    \/ RunLoadConf
    \/ RunResolveFeedURL
    \/ RunInitDB
    \/ RunSettings
    \/ RunFetch
    \/ RunRange
    \/ RunClassify
    \/ RunToot
    \/ RunStore
    \/ RunSleep
    \/ RunKill
    \/ RunStart

Spec == Init /\ [][Next]_vars

(***************************************************************************)
(* The program started under each of the environments and command lines    *)
(* of Configurations.                                                      *)
(***************************************************************************)
InitConfigured ==
    /\ InitRun
    /\ \E c \in Configurations : environ = c[1] /\ args = c[2]
    /\ hashes = HexHash
    /\ contents = <<"", "">>
    /\ sums = <<<<>>, <<>>>>

SpecConfigured == InitConfigured /\ [][Next]_vars

(***************************************************************************)
(* The program with the bookkeeping of what happened to each link: the     *)
(* same steps, each also recording in streak and lastFail.                 *)
(***************************************************************************)
\* a cycle begins: the failures of the cycle before last are forgotten
NextCycle(f) ==
    IF f = <<>> \/ f[1].age >= 1 THEN <<>> ELSE <<[f[1] EXCEPT !.age = 1]>>

TrackFetch ==
    /\ Fetch
    /\ lastFail' = IF ev'.ok THEN [l \in Links |-> NextCycle(lastFail[l])]
                   ELSE lastFail
    /\ UNCHANGED <<streak, snapshot, calls, skipped, carried, contents, sums, previous, cycle,
                exchange>>

TrackClassify ==
    /\ Classify
    /\ streak' = IF streak[post.Link].content = <<post.Content>>
                 THEN streak
                 ELSE [streak EXCEPT ![post.Link] =
                          [content |-> <<post.Content>>, calls |-> 0,
                           committed |-> FALSE]]
    /\ lastFail' = [lastFail EXCEPT ![post.Link] =
                       IF @ = <<>> \/ @[1].age >= 1 THEN <<>>
                       ELSE <<[@[1] EXCEPT !.touched = TRUE]>>]
    /\ UNCHANGED <<snapshot, calls, skipped, carried, contents, sums, previous, cycle,
                exchange>>

TrackToot ==
    /\ Toot
    /\ streak' = [streak EXCEPT ![post.Link].calls = IF @ >= 2 THEN 2 ELSE @ + 1]
    /\ lastFail' = IF ev'.ok THEN lastFail
                   ELSE [lastFail EXCEPT ![post.Link] =
                           <<[content |-> post.Content,
                              decision |-> IF isUpdate THEN "UPDATED" ELSE "NEW",
                              old |-> HashesOf(pre.table, post.Link),
                              age |-> 0, touched |-> FALSE]>>]
    /\ UNCHANGED <<snapshot, calls, skipped, carried, contents, sums, previous, cycle,
                exchange>>

TrackStore ==
    /\ Store
    /\ streak' = IF ev'.ok THEN [streak EXCEPT ![post.Link].committed = TRUE]
                 ELSE streak
    /\ UNCHANGED <<lastFail, snapshot, calls, skipped, carried, contents, sums, previous, cycle,
                exchange>>

NextTracked ==
    \/ RunLoadConf
    \/ RunResolveFeedURL
    \/ RunInitDB
    \/ RunSettings
    \/ TrackFetch
    \/ RunRange
    \/ TrackClassify
    \/ TrackToot
    \/ TrackStore
    \/ RunSleep
    \/ RunKill
    \/ RunStart

SpecTracked == Init /\ [][NextTracked]_vars

(***************************************************************************)
(* The program with the log of each cycle: the same steps, each also       *)
(* recording in snapshot, calls, skipped and carried.                      *)
(***************************************************************************)
NoHashing == UNCHANGED <<streak, lastFail, contents, sums, previous, cycle,
                exchange>>

\* the call handlePost has just made for the item post
Call(op, ok) == [op |-> op, item |-> post, ok |-> ok]

\* a call of handlePost failed for the item post
Skip(kind) == <<[content |-> post.Content, kind |-> kind, age |-> 0]>>

LogLoadConf ==
    /\ LoadConf
    /\ carried' = IF pc' = "exited" THEN tooted_posts ELSE carried
    /\ UNCHANGED <<snapshot, calls, skipped>>
    /\ NoHashing

LogResolveFeedURL ==
    /\ ResolveFeedURL
    /\ carried' = IF pc' = "exited" THEN tooted_posts ELSE carried
    /\ UNCHANGED <<snapshot, calls, skipped>>
    /\ NoHashing

LogSettings ==
    /\ Settings
    /\ UNCHANGED <<snapshot, calls, skipped, carried>>
    /\ NoHashing

LogInitDB ==
    /\ InitDB
    /\ carried' = IF pc' = "exited" THEN tooted_posts ELSE carried
    /\ UNCHANGED <<snapshot, calls, skipped>>
    /\ NoHashing

LogFetch ==
    /\ Fetch
    /\ snapshot' = IF ev'.ok THEN posts' ELSE <<>>
    /\ calls' = <<>>
    /\ skipped' = IF ev'.ok THEN [l \in Links |-> NextCycle(skipped[l])]
                  ELSE skipped
    /\ UNCHANGED carried
    /\ NoHashing

LogRange ==
    /\ Range
    /\ UNCHANGED <<snapshot, calls, skipped, carried>>
    /\ NoHashing

LogClassify ==
    /\ Classify
    /\ calls' = Append(calls, Call("HasPostChanged", ev'.ok))
    /\ skipped' = IF ev'.ok THEN skipped
                  ELSE [skipped EXCEPT ![post.Link] = Skip("read")]
    /\ UNCHANGED <<snapshot, carried>>
    /\ NoHashing

LogToot ==
    /\ Toot
    /\ calls' = Append(calls, Call("TootPost", ev'.ok))
    /\ skipped' = IF ev'.ok THEN skipped
                  ELSE [skipped EXCEPT ![post.Link] = Skip("toot")]
    /\ UNCHANGED <<snapshot, carried>>
    /\ NoHashing

LogStore ==
    /\ Store
    /\ calls' = Append(calls, Call("StoreTootedPost", ev'.ok))
    /\ skipped' = IF ev'.ok THEN skipped
                  ELSE [skipped EXCEPT ![post.Link] = Skip("write")]
    /\ UNCHANGED <<snapshot, carried>>
    /\ NoHashing

LogSleep ==
    /\ Sleep
    /\ UNCHANGED <<snapshot, calls, skipped, carried>>
    /\ NoHashing

LogKill ==
    /\ Kill
    /\ carried' = tooted_posts
    /\ snapshot' = <<>>
    /\ calls' = <<>>
    /\ skipped' = [l \in Links |-> <<>>]
    /\ NoHashing

LogStart ==
    /\ Start
    /\ UNCHANGED <<snapshot, calls, skipped, carried>>
    /\ NoHashing

NextLogged ==
    \/ LogLoadConf
    \/ LogResolveFeedURL
    \/ LogInitDB
    \/ LogSettings
    \/ LogFetch
    \/ LogRange
    \/ LogClassify
    \/ LogToot
    \/ LogStore
    \/ LogSleep
    \/ LogKill
    \/ LogStart

SpecLogged == Init /\ [][NextLogged]_vars

(***************************************************************************)
(* The program with the record of the cycle before: the same steps, each   *)
(* also recording in previous and cycle.                                   *)
(***************************************************************************)
NoLog == UNCHANGED <<streak, lastFail, snapshot, calls, skipped, carried,
                     contents, sums, exchange>>

SettleFetch ==
    /\ Fetch
    /\ cycle' = IF ev'.ok
                THEN [items |-> posts', clean |-> TRUE, acted |-> FALSE]
                ELSE cycle
    /\ UNCHANGED previous
    /\ NoLog

SettleClassify ==
    /\ Classify
    /\ cycle' = [cycle EXCEPT !.clean = @ /\ ev'.ok]
    /\ UNCHANGED previous
    /\ NoLog

SettleToot ==
    /\ Toot
    /\ cycle' = [cycle EXCEPT !.clean = @ /\ ev'.ok, !.acted = TRUE]
    /\ UNCHANGED previous
    /\ NoLog

SettleStore ==
    /\ Store
    /\ cycle' = [cycle EXCEPT !.clean = @ /\ ev'.ok, !.acted = TRUE]
    /\ UNCHANGED previous
    /\ NoLog

SettleSleep ==
    /\ Sleep
    /\ previous' = IF cycle.clean THEN <<cycle.items>> ELSE <<>>
    /\ cycle' = NoCycle
    /\ NoLog

SettleKill ==
    /\ Kill
    /\ previous' = <<>>
    /\ cycle' = NoCycle
    /\ NoLog

NextSettled ==
    \/ RunLoadConf
    \/ RunResolveFeedURL
    \/ RunInitDB
    \/ RunSettings
    \/ SettleFetch
    \/ RunRange
    \/ SettleClassify
    \/ SettleToot
    \/ SettleStore
    \/ SettleSleep
    \/ SettleKill
    \/ RunStart

SpecSettled == Init /\ [][NextSettled]_vars

(***************************************************************************)
(* The program left to run for ever, with one item that stays in the feed: *)
(* the process is not stopped, the calls of rss.CheckRSSFeed are not       *)
(* counted and the clock is read up to MaxNow.  The feed holds the item    *)
(* alone or with an item of the other link, of any body; the table holds   *)
(* nothing, or the row of an earlier body of the item from a run before.   *)
(***************************************************************************)
TheItem == [Title |-> TitleOf["https://x/1"], Link |-> "https://x/1", Content |-> "hello"]

LiveFeeds ==
    {<<TheItem>>}
        \cup {<<TheItem, y>> : y \in {i \in RSSItem : i.Link # TheItem.Link}}
        \cup {<<y, TheItem>> : y \in {i \in RSSItem : i.Link # TheItem.Link}}

LiveResponses ==
    {r \in FeedResponses : Outcome(r) = "items" => r.Items \in LiveFeeds}

InitLive ==
    /\ hashes = HexHash
    /\ environ = DefaultEnviron
    /\ args = DefaultArgs
    /\ pc = "GetEnvVars"
    /\ conf = NoConf
    /\ feedURL = ""
    /\ interval = 0
    /\ category = ""
    /\ db = "nil"
    /\ tooted_posts \in {{}, {TootedRow(TheItem.Link, "hello world", 0)}}
    /\ tableExists = (tooted_posts # {})
    /\ notified = {r.link : r \in tooted_posts}
    /\ starts = IF tooted_posts = {} THEN 1 ELSE 2
    /\ fetches = IF tooted_posts = {} THEN 0 ELSE 1
    /\ posts = <<>>
    /\ post = NoPost
    /\ tootContent = ""
    /\ isUpdate = FALSE
    /\ now = 0
    /\ ev = [op |-> "none"]
    /\ pre = NoPre
    /\ streak = [l \in Links |-> NoStreak]
    /\ lastFail = [l \in Links |-> <<>>]
    /\ snapshot = <<>>
    /\ calls = <<>>
    /\ skipped = [l \in Links |-> <<>>]
    /\ carried = tooted_posts
    /\ previous = <<>>
    /\ cycle = NoCycle
    /\ exchange = NoExchange
    /\ contents = <<"", "">>
    /\ sums = <<<<>>, <<>>>>

LiveFetch == FetchFrom(LiveResponses) /\ UNCHANGED fetches /\ NoBookkeeping
LiveSleep ==
    /\ SleepUntil(IF now + interval > MaxNow THEN MaxNow ELSE now + interval)
    /\ NoBookkeeping

NextLive ==
    \/ RunLoadConf
    \/ RunResolveFeedURL
    \/ RunInitDB
    \/ RunSettings
    \/ LiveFetch
    \/ RunRange
    \/ RunClassify
    \/ RunToot
    \/ RunStore
    \/ LiveSleep

\* the calls that succeed, and those made for the item that succeed
FetchOK == LiveFetch /\ ev'.ok
LookupOK == RunClassify /\ post = TheItem /\ ev'.ok
TootOK == RunToot /\ post = TheItem /\ ev'.ok
StoreOK == RunStore /\ post = TheItem /\ ev'.ok

\* the loop of Run goes on for as long as the process lives; a call that
\* is made again and again succeeds again and again
FairLive ==
    /\ WF_vars(NextLive)
    /\ SF_vars(FetchOK)
    /\ SF_vars(LookupOK)
    /\ SF_vars(TootOK)
    /\ SF_vars(StoreOK)

SpecLive == InitLive /\ [][NextLive]_vars /\ FairLive

(***************************************************************************)
(* handlePost on its own: called once with any item, on a table that holds *)
(* no row or one row of the link of the item, with any URL and token in    *)
(* conf.  The outcome of the HTTP exchange of TootPost is kept in          *)
(* exchange.                                                               *)
(***************************************************************************)
\* the exchanges TootPost can have: none when the URL or the token is empty
Exchanges(mastodonURL, mastodonToken) ==
    IF Sent(mastodonURL, mastodonToken) THEN HTTPResults ELSE {NoExchange}

InitHandle ==
    /\ hashes = HexHash
    /\ environ = DefaultEnviron
    /\ args = DefaultArgs
    /\ \E u \in {"", DefaultEnviron.MASTODON_URL},
          t \in {"", DefaultEnviron.MASTODON_ACCESS_TOKEN} :
         conf = [Parse(DefaultEnviron) EXCEPT !.MastodonURL = u,
                                              !.MastodonAccessToken = t]
    /\ feedURL = DefaultEnviron.FEED_URL
    /\ interval = Interval
    /\ category = ""
    /\ pc = "handle"
    /\ db = "open"
    /\ tableExists = TRUE
    /\ post \in RSSItem
    /\ tooted_posts \in {{}} \cup {{TootedRow(post.Link, b, 0)} : b \in Bodies}
    /\ notified = {r.link : r \in tooted_posts}
    /\ posts = <<>>
    /\ tootContent = ""
    /\ isUpdate = FALSE
    /\ now = 0
    /\ fetches = 1
    /\ starts = 1
    /\ ev = [op |-> "CheckRSSFeed", ok |-> TRUE, outcome |-> "items"]
    /\ pre = NoPre
    /\ streak = [l \in Links |-> NoStreak]
    /\ lastFail = [l \in Links |-> <<>>]
    /\ snapshot = <<>>
    /\ calls = <<>>
    /\ skipped = [l \in Links |-> <<>>]
    /\ carried = {}
    /\ previous = <<>>
    /\ cycle = NoCycle
    /\ exchange = NoExchange
    /\ contents = <<"", "">>
    /\ sums = <<<<>>, <<>>>>

HandleToot ==
    /\ \E result \in Exchanges(conf.MastodonURL, conf.MastodonAccessToken) :
         /\ TootWith(result)
         /\ exchange' = result
    /\ UNCHANGED <<streak, lastFail, snapshot, calls, skipped, carried,
                   contents, sums, previous, cycle>>

NextHandle ==
    \/ RunClassify
    \/ HandleToot
    \/ RunStore

SpecHandle == InitHandle /\ [][NextHandle]_vars

(***************************************************************************)
(* rss.HashContent on its own, applied to each of two strings.             *)
(***************************************************************************)
InitHash ==
    /\ InitRun
    /\ environ = DefaultEnviron
    /\ args = DefaultArgs
    /\ hashes = <<>>
    /\ contents \in HashInputs \X HashInputs
    /\ sums = <<<<>>, <<>>>>

\* rss.HashContent(contents[i])
Hash(i) ==
    /\ sums[i] = <<>>
    /\ sums' = [sums EXCEPT ![i] = HashContent(contents[i])]
    /\ UNCHANGED <<pc, db, tableExists, tooted_posts, posts, post,
                   tootContent, isUpdate, now, fetches, starts, ev, pre,
                   notified, streak, lastFail, snapshot, calls, skipped,
                   carried, contents, previous, cycle, exchange, hashes,
                   environ, args, conf, feedURL, interval, category>>

HashFirst == Hash(1)
HashSecond == Hash(2)

NextHash ==
    \/ HashFirst
    \/ HashSecond

SpecHash == InitHash /\ [][NextHash]_vars

TypeOK ==
    /\ pc \in {"GetEnvVars", "feedURL", "InitDB", "settings", "fetch", "range",
                "handle", "toot", "store", "sleep", "exited"}
    /\ interval \in Nat
    /\ conf.Interval \in Int
    /\ conf.FeedURL \in {"", environ.FEED_URL}
    /\ db \in {"nil", "open", "closed"}
    /\ tableExists \in BOOLEAN
    /\ \A r \in tooted_posts : r.link \in Links /\ r.timestamp \in Nat
    /\ post \in RSSItem \cup {NoPost}
    /\ isUpdate \in BOOLEAN
    /\ Len(snapshot) <= MaxFeedLen
    /\ Len(calls) <= 3 * MaxFeedLen
    /\ \A r \in carried : r.link \in Links
    /\ \A i \in {1, 2} : contents[i] \in HashInputs

(***************************************************************************)
(* Reference values and what the properties speak of.                      *)
(***************************************************************************)
\* the SHA-256 digests of the bodies, in lowercase hex, as published
KnownDigest ==
    [content \in Bodies |->
        IF content = ""
        THEN "e3b0c44298fc1c149afbf4c8996fb92427ae41e4649b934ca495991b7852b855"
        ELSE IF content = "hello"
        THEN "2cf24dba5fb0a30e26e83b2ac5b9e29e1b161e5c1fa7425e73043362938b9824"
        ELSE "b94d27b9934d3e08a52e52d7da7dabfac484efe37a5380ee9088f7ace2efcde9"]

\* handlePost has just made the call op for the item post, and the loop of
\* Run has not moved on since
Handled(op) == pre.valid /\ ev.op = op

\* the rows of the links other than link
Others(table, link) == {r \in table : r.link # link}

\* C1: when TootPost reports a failure for an item, handlePost returns
\* without calling StoreTootedPost and the table is as it was when the item
\* was taken up.
C1_CommitAfterSuccess ==
    (Handled("TootPost") /\ ~ev.ok) =>
        /\ pc = "range"
        /\ tooted_posts = pre.table

\* C1 witness: the toot of an update has failed while the table has rows
C1_Witness ==
    /\ Handled("TootPost") /\ ~ev.ok /\ ev.update
    /\ pc = "range"
    /\ tooted_posts # {}

\* C2 as stated: for a link whose items keep the same body, TootPost is
\* called at most once, whatever the store and the notifier answer.
C2_Original == \A l \in Links : streak[l].calls <= 1

\* C2 as amended: once a link has been notified and its row written, and
\* while its items keep the same body, it is classified UNCHANGED and
\* TootPost is not called for it again.
C2_NoNotifyAfterCommit ==
    /\ pc = "toot" => ~streak[post.Link].committed
    /\ (Handled("HasPostChanged") /\ ev.ok /\ streak[post.Link].committed)
           => (ev.decision = "UNCHANGED" /\ pc = "range")

\* C2 witness: in the second cycle an item that was committed is classified
\* again
C2_Witness ==
    /\ Handled("HasPostChanged") /\ ev.ok
    /\ streak[post.Link].committed
    /\ streak[post.Link].calls = 1
    /\ fetches = 2

\* C3 as stated: after a cycle in which TootPost failed for an item, the
\* table holds for its link what it held before (nothing for NEW, the old
\* hash for UPDATED); and in the next cycle the same item gets the same
\* decision and TootPost is called again.
C3_Original ==
    [][/\ pc' = "sleep" =>
            \A l \in Links :
                (lastFail'[l] # <<>> /\ lastFail'[l][1].age = 0)
                    => HashesOf(tooted_posts', l) = lastFail'[l][1].old
       /\ ( /\ pc = "handle"
            /\ ev'.op = "HasPostChanged"
            /\ lastFail[post.Link] # <<>>
            /\ lastFail[post.Link][1].age = 1
            /\ lastFail[post.Link][1].content = post.Content )
            => /\ pc' = "toot"
               /\ isUpdate' = (lastFail[post.Link][1].decision = "UPDATED")
      ]_vars

\* C3 as amended: after TootPost failed for an item, and until an item with
\* the same link is handled again, the table holds for its link what it
\* held before; and when the same item is the next one handled for its
\* link and HasPostChanged returns no error, it gets the same decision and
\* TootPost is called again.
C3_RetryByRepolling ==
    [][/\ \A l \in Links :
            (lastFail'[l] # <<>> /\ ~lastFail'[l][1].touched)
                => HashesOf(tooted_posts', l) = lastFail'[l][1].old
       /\ ( /\ pc = "handle"
            /\ ev'.op = "HasPostChanged"
            /\ ev'.ok
            /\ lastFail[post.Link] # <<>>
            /\ ~lastFail[post.Link][1].touched
            /\ lastFail[post.Link][1].content = post.Content )
            => /\ pc' = "toot"
               /\ isUpdate' = (lastFail[post.Link][1].decision = "UPDATED")
      ]_vars

\* C3 witness: the update whose toot failed in the cycle before is
\* classified again and TootPost is about to be called
C3_Witness ==
    /\ Handled("HasPostChanged") /\ ev.ok
    /\ ev.retry = "next cycle"
    /\ pc = "toot"
    /\ isUpdate

\* C4 as stated: between two handlings, a link has a row exactly when a
\* status was delivered for it.
C4_Original ==
    pc # "store" =>
        \A l \in Links : (HashesOf(tooted_posts, l) # {}) <=> (l \in notified)

\* C4 as amended: a link has a row only if a status was delivered for it,
\* and it has a row once StoreTootedPost has succeeded for it.
C4_RecordOnlyIfNotified ==
    /\ \A r \in tooted_posts : r.link \in notified
    /\ (Handled("StoreTootedPost") /\ ev.ok)
           => HashesOf(tooted_posts, post.Link) # {}

\* C4 witness: a row has just been written for a notified link
C4_Witness ==
    /\ Handled("StoreTootedPost") /\ ev.ok
    /\ post.Link \in notified
    /\ HashesOf(tooted_posts, post.Link) # {}

\* the decision the contract gives for an item against a table
Reference(table, item) ==
    LET stored == HashesOf(table, item.Link)
    IN  IF stored = {} THEN "NEW"
        ELSE IF stored # {KnownDigest[item.Content]} THEN "UPDATED"
        ELSE "UNCHANGED"

\* C5: HasPostChanged and the switch of handlePost take exactly the branch
\* of the reference: NEW without a row, UPDATED with a row of another
\* digest, UNCHANGED with a row of the same digest.
C5_Classification ==
    (Handled("HasPostChanged") /\ ev.ok) =>
        /\ ev.decision = Reference(pre.table, post)
        /\ ev.decision = "NEW" => (pc = "toot" /\ ~isUpdate)
        /\ ev.decision = "UPDATED" => (pc = "toot" /\ isUpdate)
        /\ ev.decision = "UNCHANGED" => pc = "range"

\* C5 witness: an item with a row of another digest has been classified
C5_Witness ==
    /\ Handled("HasPostChanged") /\ ev.ok
    /\ Reference(pre.table, post) = "UPDATED"
    /\ pc = "toot"

\* C6: after the toot and the write of an item succeeded, classifying the
\* same item again gives UNCHANGED.
C6_Idempotent ==
    (Handled("StoreTootedPost") /\ ev.ok) =>
        LET r == HasPostChanged(tooted_posts, post.Link, post.Content, FALSE)
        IN  ~r.err /\ Switch(r.exists, r.updated) = "UNCHANGED"

\* C6 witness: the item written replaced a row of another digest
C6_Witness ==
    /\ Handled("StoreTootedPost") /\ ev.ok /\ ev.update
    /\ HashesOf(pre.table, post.Link) # {}
    /\ HashesOf(pre.table, post.Link) # HashesOf(tooted_posts, post.Link)

\* C7: handling an item whose row holds the digest of its body calls
\* neither TootPost nor StoreTootedPost and changes no row.
C7_UnchangedNoOp ==
    [][( /\ pc = "handle"
         /\ ev'.op = "HasPostChanged"
         /\ ev'.ok
         /\ Reference(tooted_posts, post) = "UNCHANGED" )
         => /\ pc' = "range"
            /\ tooted_posts' = tooted_posts
            /\ notified' = notified
      ]_vars

\* C7 witness: an unchanged item has been classified in a later cycle
C7_Witness ==
    /\ Handled("HasPostChanged") /\ ev.ok
    /\ Reference(pre.table, post) = "UNCHANGED"
    /\ pc = "range"
    /\ now > 0

\* C8: after the toot and the write of an item succeeded, its link has
\* exactly one row, which holds the hex SHA-256 of the body classified, and
\* the rows of the other links are as before.
C8_CommittedRecord ==
    (Handled("StoreTootedPost") /\ ev.ok) =>
        /\ Cardinality({r \in tooted_posts : r.link = post.Link}) = 1
        /\ HashesOf(tooted_posts, post.Link) = {KnownDigest[post.Content]}
        /\ Others(tooted_posts, post.Link) = Others(pre.table, post.Link)

\* C8 witness: an update has been written while another link has a row
C8_Witness ==
    /\ Handled("StoreTootedPost") /\ ev.ok /\ ev.update
    /\ Others(tooted_posts, post.Link) # {}

\* C9: the table never holds two rows for a link, and a write for a link
\* that has a row puts the new row in its place.
C9_OneRecordPerLink ==
    /\ \A r1, r2 \in tooted_posts : r1.link = r2.link => r1 = r2
    /\ (Handled("StoreTootedPost") /\ ev.ok)
           => TootedRow(post.Link, post.Content, now) \in tooted_posts

\* C9 witness: a row has been written over the row of its link
C9_Witness ==
    /\ Handled("StoreTootedPost") /\ ev.ok
    /\ HashesOf(pre.table, post.Link) # {}
    /\ TootedRow(post.Link, post.Content, now) \notin pre.table

\* C10: no step takes the row of a link away.
C10_NeverDeleted ==
    [][\A l \in Links :
          HashesOf(tooted_posts, l) # {} => HashesOf(tooted_posts', l) # {}
      ]_vars

\* C10 witness: the program has been started again on a table with rows
C10_Witness ==
    /\ starts = 2
    /\ ev.op = "InitDB" /\ ev.ok
    /\ tooted_posts # {}

\* the row carried over the restart that holds the digest of the body of
\* the item post
CarriedRow ==
    {r \in carried \cap pre.table :
        r.link = post.Link /\ r.content_hash = KnownDigest[post.Content]}

\* C11: while the process is down and when InitDB has run again, the table
\* holds exactly the rows it held when the process ended; and an item whose
\* row was written before the restart with the digest of its body is
\* classified UNCHANGED and not tooted again.
C11_SurvivesRestart ==
    /\ (pc \in {"exited", "GetEnvVars", "feedURL", "InitDB"}
           \/ (ev.op = "InitDB" /\ ev.ok))
           => tooted_posts = carried
    /\ (Handled("HasPostChanged") /\ ev.ok /\ starts > 1 /\ CarriedRow # {})
           => (ev.decision = "UNCHANGED" /\ pc = "range")

\* C11 witness: after a restart an item committed before it is classified
C11_Witness ==
    /\ Handled("HasPostChanged") /\ ev.ok
    /\ starts = 2
    /\ CarriedRow # {}
    /\ pc = "range"

\* a call of the kind failed for this item in the cycle before, and none
\* has failed for its link since
SkippedBefore(item, kind) ==
    /\ skipped[item.Link] # <<>>
    /\ skipped[item.Link][1].content = item.Content
    /\ skipped[item.Link][1].kind = kind
    /\ skipped[item.Link][1].age = 1

\* HasPostChanged has been called for the item since the latest fetch
Looked(item) ==
    \E i \in DOMAIN calls :
        calls[i].op = "HasPostChanged" /\ calls[i].item = item

\* C12: when row.Scan fails with an error other than sql.ErrNoRows,
\* handlePost returns at once: no decision is taken, TootPost is not called
\* and the table is as it was; and in the next cycle HasPostChanged is
\* called again for the item when the feed still has it.
C12_ReadFailureSkips ==
    /\ (Handled("HasPostChanged") /\ ev.scanErr) =>
           /\ ~ev.ok
           /\ pc = "range"
           /\ tootContent = ""
           /\ tooted_posts = pre.table
           /\ calls[Len(calls)] = Call("HasPostChanged", FALSE)
    /\ pc = "sleep" =>
           \A k \in DOMAIN snapshot :
               SkippedBefore(snapshot[k], "read") => Looked(snapshot[k])

\* C12 witness: the item whose lookup failed in the cycle before is looked
\* up again, this time without an error
C12_Witness ==
    /\ Handled("HasPostChanged") /\ ev.ok
    /\ SkippedBefore(post, "read")
    /\ pc = "toot"

\* C13: when db.Exec of StoreTootedPost fails after a successful toot, the
\* error is logged and the loop of Run goes on; the table is as it was when
\* the item was taken up; and in the next cycle HasPostChanged is called
\* again for the item when the feed still has it.
C13_WriteFailureNotFatal ==
    /\ (Handled("StoreTootedPost") /\ ~ev.ok) =>
           /\ pc = "range"
           /\ tooted_posts = pre.table
           /\ calls[Len(calls)] = Call("StoreTootedPost", FALSE)
           /\ calls[Len(calls) - 1] = Call("TootPost", TRUE)
    /\ pc = "sleep" =>
           \A k \in DOMAIN snapshot :
               SkippedBefore(snapshot[k], "write") => Looked(snapshot[k])

\* C13 witness: the item whose write failed in the cycle before is looked
\* up again and, having no row, is about to be tooted again
C13_Witness ==
    /\ Handled("HasPostChanged") /\ ev.ok
    /\ SkippedBefore(post, "write")
    /\ ev.decision = "NEW"
    /\ pc = "toot"

\* C14: when sql.Open or the CREATE TABLE of InitDB fails, the process has
\* ended and makes no call; the loop of Run is only ever reached with the
\* database open and the table present.
C14_InitFailureFatal ==
    /\ (ev.op = "InitDB" /\ ~ev.ok) => pc = "exited"
    /\ pc \in {"fetch", "range", "handle", "toot", "store", "sleep"}
           => (db = "open" /\ tableExists)

\* C14 witness: InitDB has failed at a restart on a file that has rows
C14_Witness ==
    /\ ev.op = "InitDB" /\ ~ev.ok
    /\ pc = "exited"
    /\ starts = 2
    /\ tooted_posts # {}

\* C15 as stated: but for the first fetch of a process, rss.CheckRSSFeed is
\* called only right after time.Sleep has returned.
C15_Original ==
    [][(pc = "fetch" /\ ev'.op = "CheckRSSFeed")
          => ev.op \in {"InitDB", "Sleep"}
      ]_vars

\* C17 as stated: a process that has ended after sql.Open gave it a handle
\* has closed that handle with CloseDB.
C17_Original ==
    pc = "exited" => (db # "nil" => db = CloseDB("open"))

\* the calls of HasPostChanged since the latest fetch, in order
Lookups == SelectSeq(calls, LAMBDA c : c.op = "HasPostChanged")

\* the items of the snapshot the loop of Run has handed to handlePost
Taken == Len(snapshot) - Len(posts)

\* C16: the calls of a cycle are made item by item in the order of the
\* snapshot: a lookup for each item taken, a toot only right after the
\* lookup of the same item, a write only right after the toot of the same
\* item; and Run sleeps and fetches again only when every item of the
\* snapshot has been looked up.
C16_SingleWorker ==
    /\ Len(Lookups) = IF pc = "handle" THEN Taken - 1 ELSE Taken
    /\ \A k \in DOMAIN Lookups : Lookups[k].item = snapshot[k]
    /\ \A i \in DOMAIN calls :
           /\ calls[i].op = "TootPost" =>
                  /\ i > 1
                  /\ calls[i - 1] = [op |-> "HasPostChanged",
                                     item |-> calls[i].item, ok |-> TRUE]
           /\ calls[i].op = "StoreTootedPost" =>
                  /\ i > 1
                  /\ calls[i - 1] = [op |-> "TootPost",
                                     item |-> calls[i].item, ok |-> TRUE]
    /\ pc \in {"toot", "store"} => calls[Len(calls)].item = post
    /\ pc \in {"sleep", "fetch"} =>
           (posts = <<>> /\ Len(Lookups) = Len(snapshot))

\* C16 witness: a cycle of two items with the same link, each tooted and
\* written, has come to its sleep
C16_Witness ==
    /\ pc = "sleep"
    /\ Len(snapshot) = 2
    /\ snapshot[1].Link = snapshot[2].Link
    /\ Len(calls) = 6

\* C18: a failed lookup, toot or write leaves Run in its loop over the
\* posts; the process ends only while it starts or from outside; and at the sleep
\* every item of the snapshot has been looked up, whatever failed before it.
C18_ItemErrorsNotFatal ==
    /\ \A op \in {"HasPostChanged", "TootPost", "StoreTootedPost"} :
           (Handled(op) /\ ~ev.ok) => pc = "range"
    /\ pc = "exited" => ev.op \in {"GetEnvVars", "feedURL", "InitDB", "Kill"}
    /\ pc = "sleep" => \A k \in DOMAIN snapshot : Looked(snapshot[k])
    /\ pc = "sleep" => ENABLED LogSleep

\* C18 witness: in the second cycle, after a failure in the first, the toot
\* of the first item failed and the second item has been looked up
C18_Witness ==
    /\ pc = "sleep"
    /\ fetches = 2
    /\ \E l \in Links : skipped[l] # <<>> /\ skipped[l][1].age = 1
    /\ Len(calls) >= 3
    /\ calls[2] = [op |-> "TootPost", item |-> snapshot[1], ok |-> FALSE]
    /\ calls[3] = [op |-> "HasPostChanged", item |-> snapshot[2], ok |-> TRUE]

\* the SHA-256 digests of the strings of HashInputs, in lowercase hex, as
\* published
PublishedDigest ==
    [content \in HashInputs |->
        IF content = ""
        THEN "e3b0c44298fc1c149afbf4c8996fb92427ae41e4649b934ca495991b7852b855"
        ELSE IF content = "hello"
        THEN "2cf24dba5fb0a30e26e83b2ac5b9e29e1b161e5c1fa7425e73043362938b9824"
        ELSE IF content = "hellp"
        THEN "fdd7585e08c4e2afd71dcabdb4636c89d557a3f42db9e2040c8bbd1708aa4ce7"
        ELSE IF content = "hello world"
        THEN "b94d27b9934d3e08a52e52d7da7dabfac484efe37a5380ee9088f7ace2efcde9"
        ELSE IF content = "This is a test post"
        THEN "abd626e7d7a690ce9d8570647b8895f7662d4f7207fe88cb67c8df9c124ba7a5"
        ELSE IF content = "0123456789012345678901234567890123456789012345678901234"
        THEN "f34d5a0f80c0cbf84c8c0b90218c22637abd199965249da736a20143c8c9c9d9"
        ELSE "83aa034bda83e458a0dc9cbce0d4e354716aa0ff770ed37ac0ed2b292052e4af"]

\* expectedHash of TestHashContent
ExpectedHash ==
    <<171, 214, 38, 231, 215, 166, 144, 206, 157, 133, 112, 100, 123, 136,
      149, 247, 102, 45, 79, 114, 7, 254, 136, 203, 103, 200, 223, 156, 18,
      75, 167, 165>>

\* C19: HashContent returns for every string, the empty one included, the
\* 32 bytes of its SHA-256 digest: the published digest of the string, and
\* for the content of TestHashContent the bytes the test expects; equal
\* strings get equal digests and different strings different digests.
C19_Fingerprint ==
    /\ \A i \in {1, 2} :
           sums[i] # <<>> =>
               /\ Len(sums[i]) = 32
               /\ \A k \in 1..32 : sums[i][k] \in 0..255
               /\ Hex(sums[i]) = PublishedDigest[contents[i]]
               /\ contents[i] = "This is a test post" => sums[i] = ExpectedHash
    /\ (sums[1] # <<>> /\ sums[2] # <<>>)
           => ((contents[1] = contents[2]) <=> (sums[1] = sums[2]))

\* C19 witness: the empty string and the content of TestHashContent have
\* both been hashed
C19_Witness ==
    /\ contents = <<"", "This is a test post">>
    /\ sums[1] # <<>>
    /\ sums[2] = ExpectedHash

\* C20: an item with the empty body is NEW without a row, UNCHANGED with a
\* row that holds the digest of the empty string and UPDATED with a row of
\* another digest; an item with a body is UPDATED against a row that holds
\* the digest of the empty string; and the row written for an item with the
\* empty body holds the digest of the empty string.
C20_EmptyBody ==
    /\ (Handled("HasPostChanged") /\ ev.ok /\ post.Content = "") =>
           ev.decision =
               IF HashesOf(pre.table, post.Link) = {} THEN "NEW"
               ELSE IF HashesOf(pre.table, post.Link) = {KnownDigest[""]}
               THEN "UNCHANGED"
               ELSE "UPDATED"
    /\ ( /\ Handled("HasPostChanged") /\ ev.ok
         /\ post.Content # ""
         /\ HashesOf(pre.table, post.Link) = {KnownDigest[""]} )
           => (ev.decision = "UPDATED" /\ pc = "toot" /\ isUpdate)
    /\ (Handled("StoreTootedPost") /\ ev.ok /\ post.Content = "") =>
           HashesOf(tooted_posts, post.Link) = {KnownDigest[""]}

\* C20 witness: an item with a body is classified UPDATED against the row
\* written for the empty body of its link
C20_Witness ==
    /\ Handled("HasPostChanged") /\ ev.ok
    /\ post.Content # ""
    /\ HashesOf(pre.table, post.Link) = {KnownDigest[""]}
    /\ pc = "toot"

\* where Run is once it has reached its loop
InLoop == pc \in {"fetch", "range", "handle", "toot", "store", "sleep"}

\* C21 as stated, for positive values: the loop sleeps for the value of
\* INTERVAL when --interval is not given, and for the value of the flag when
\* it is given.
C21_Original ==
    InLoop =>
        /\ (args.interval = <<>> /\ environ.INTERVAL # <<>>
              /\ environ.INTERVAL[1] > 0)
               => interval = environ.INTERVAL[1]
        /\ (args.interval # <<>> /\ args.interval[1] > 0)
               => interval = args.interval[1]

\* C22 as stated: config.GetEnvVars fails when MASTODON_URL or the token is
\* missing, and Run then ends with the database unopened, nothing fetched
\* and nothing tooted; it succeeds when MASTODON_URL and MASTODON_TOKEN are
\* set.
C22_Original ==
    ev.op = "GetEnvVars" =>
        /\ (environ.MASTODON_URL = ""
              \/ (environ.MASTODON_TOKEN = "" /\ environ.MASTODON_ACCESS_TOKEN = ""))
               => (~ev.ok /\ pc = "exited" /\ db = "nil")
        /\ (environ.MASTODON_URL # "" /\ environ.MASTODON_TOKEN # "") => ev.ok

\* no link occurs in the items with two different bodies
OneBodyPerLink(items) ==
    \A i, j \in DOMAIN items :
        items[i].Link = items[j].Link => items[i].Content = items[j].Content

\* the cycle under way has the items of the cycle before, in which every
\* call succeeded, and every call of it has succeeded so far
SameAsBefore == previous = <<cycle.items>> /\ cycle.clean

\* C23 as stated: in a cycle that has the items of the cycle before, with
\* every call succeeding, neither TootPost nor StoreTootedPost is called.
C23_Original == SameAsBefore => ~cycle.acted

\* C23, amended: the same when no link occurs in the items with two
\* different bodies.
C23_Quiescence ==
    (SameAsBefore /\ OneBodyPerLink(cycle.items)) => ~cycle.acted

\* C23 witness: the second cycle over the same two items of one link and
\* one body, tooted in the first, has come to its sleep
C23_Witness ==
    /\ pc = "sleep"
    /\ SameAsBefore
    /\ Len(cycle.items) = 2
    /\ cycle.items[1] = cycle.items[2]
    /\ cycle.items[1].Link \in notified
    /\ ~cycle.acted

\* the item has been tooted and the table holds the digest of its body
Announced ==
    /\ TheItem.Link \in notified
    /\ HashesOf(tooted_posts, TheItem.Link) = {KnownDigest[TheItem.Content]}

\* C24: with the item in every feed that is fetched and each call succeeding
\* again and again, once Run is in its loop the item is in the end tooted
\* and its row holds the digest of its body; from then on that stays so, and
\* every lookup of the item that succeeds classifies it UNCHANGED.
C24_EventuallyAnnounced ==
    /\ InLoop ~> Announced
    /\ [][Announced => Announced']_vars
    /\ [](( Announced /\ Handled("HasPostChanged") /\ ev.ok /\ post = TheItem)
            => (ev.decision = "UNCHANGED" /\ pc = "range"))

\* C24 witness: the item, whose row held an earlier body, has been tooted
\* and stored, and looked up again
C24_Witness ==
    /\ Announced
    /\ starts = 2
    /\ Handled("HasPostChanged") /\ ev.ok /\ post = TheItem
    /\ ev.decision = "UNCHANGED"

\* the latest call of Run was an rss.CheckRSSFeed that got no items: the
\* request failed, the status was not 200 or the body did not parse
FetchFailed == ev.op = "CheckRSSFeed" /\ ev.outcome # "items"

\* C25: after a fetch that failed, until the next call, Run has no item to
\* range over and is not in handlePost, and its next step neither looks up,
\* toots nor stores, and leaves the table as it is.
C25_FailedFetchHandlesNothing ==
    /\ [](FetchFailed
            => (~ev.ok /\ posts = <<>> /\ pc \notin {"handle", "toot", "store"}))
    /\ [][FetchFailed
            => /\ tooted_posts' = tooted_posts
               /\ notified' = notified
               /\ ev'.op \notin {"HasPostChanged", "TootPost", "StoreTootedPost"}
         ]_vars

\* C25 witness: after a cycle that stored a row, the feed answered with a
\* status other than 200
C25_Witness ==
    /\ FetchFailed
    /\ ev.outcome = "status"
    /\ fetches = 2
    /\ tooted_posts # {}

\* C26: TootPost returns no error exactly when its exchange ended in a
\* response of status 200; with the URL or the token empty, with a request
\* that could not be built or sent, and with any other status it returns an
\* error, and on an error of whatever cause handlePost returns with nothing
\* stored and its locals gone; without an error it goes on to store.
C26_SuccessOnly200 ==
    Handled("TootPost") =>
        /\ ev.ok <=> exchange.StatusCode = 200
        /\ (\/ conf.MastodonURL = "" \/ conf.MastodonAccessToken = ""
            \/ exchange.requestErr \/ exchange.err
            \/ exchange.StatusCode # 200) => ~ev.ok
        /\ ~ev.ok => /\ pc = "range"
                     /\ tootContent = "" /\ ~isUpdate
                     /\ tooted_posts = pre.table
        /\ ev.ok => pc = "store"

\* C26 witness: the server answered 201 and handlePost has returned
C26_Witness ==
    /\ Handled("TootPost")
    /\ exchange.StatusCode = 201
    /\ ~ev.ok
    /\ pc = "range"

\* the text each decision sends for the item of each link: the title at
\* https://x/1 starts with "Thoughts", the title at https://x/2 does not
ExpectedText(decision, item) ==
    IF decision = "UPDATED"
    THEN IF item.Link = "https://x/1"
         THEN "Blog post has been updated: https://x/1"
         ELSE "Blog post has been updated: https://x/2"
    ELSE IF item.Link = "https://x/1"
    THEN IF item.Content = "" THEN " - https://x/1"
         ELSE IF item.Content = "hello" THEN "hello - https://x/1"
         ELSE "hello world - https://x/1"
    ELSE "New blog post: https://x/2"

\* C27: an item classified UPDATED is tooted with the generic text of an
\* update whatever its title, an item classified NEW with its body and
\* link when its title starts with "Thoughts" and with the generic text of
\* a new post otherwise, and for an item classified UNCHANGED handlePost
\* returns without a text; TootPost is handed the text of the decision.
C27_TextByDecision ==
    /\ (Handled("HasPostChanged") /\ ev.ok /\ ev.decision = "UNCHANGED")
           => (pc = "range" /\ tootContent = "")
    /\ (Handled("HasPostChanged") /\ ev.ok /\ ev.decision # "UNCHANGED")
           => (pc = "toot" /\ tootContent = ExpectedText(ev.decision, post))
    /\ Handled("TootPost")
           => ev.content = ExpectedText(IF ev.update THEN "UPDATED" ELSE "NEW", post)

\* C27 witness: an update of the post whose title starts with "Thoughts"
\* has been tooted
C27_Witness ==
    /\ Handled("TootPost") /\ ev.ok
    /\ ev.update
    /\ HasPrefix(post.Title, "Thoughts")
    /\ ev.content = "Blog post has been updated: https://x/1"

\* the items Run hands to handlePost under each category of the model: the
\* last segment of https://x/1 is "1", that of https://x/2 is "2", and "x"
\* is in no last segment
Wanted(cat, item) ==
    \/ cat = ""
    \/ cat = "1" /\ item.Link = "https://x/1"
    \/ cat = "2" /\ item.Link = "https://x/2"

\* C28: the loop of Run hands an item to handlePost when no category is
\* configured or the last segment of its link contains the category;
\* otherwise it goes on to the next item with no lookup, no toot, and the
\* table and the tooted links as they were.
C28_CategoryFilter ==
    [][(pc = "range" /\ posts # <<>> /\ pc' # "exited")
          => IF Wanted(category, Head(posts))
             THEN pc' = "handle" /\ post' = Head(posts)
             ELSE /\ pc' = "range"
                  /\ posts' = Tail(posts)
                  /\ ev' = ev
                  /\ tooted_posts' = tooted_posts
                  /\ notified' = notified
                  /\ tootContent' = ""
      ]_vars

\* C28 witness: under the category "x", which is in every link but in no
\* last segment, both items of a feed have been passed over
C28_Witness ==
    /\ category = "x"
    /\ pc = "sleep"
    /\ ev.op = "CheckRSSFeed" /\ ev.ok
    /\ post # NoPost
    /\ fetches = 1 /\ starts = 1
    /\ tooted_posts = {}

C30_StoreLifecycle ==
    /\ [][(pc \in {"handle", "store"} /\ pc' # "exited")
            => (db = "open" /\ tableExists /\ db' = "open")]_vars
    /\ [](pc \in {"handle", "toot", "store"} => (db = "open" /\ tableExists))
    /\ [](db = "closed" => pc = "exited")
    /\ []((pc \notin {"exited", "GetEnvVars", "feedURL", "InitDB"})
            => db = OpenedDB(FALSE))

\* C30 witness: a row has been written by the process started second, on
\* the handle its own InitDB opened
C30_Witness ==
    /\ Handled("StoreTootedPost") /\ ev.ok
    /\ starts = 2
    /\ db = "open"
    /\ tooted_posts # {}

\* the feed URL Run is to use under the environments and command lines of
\* the model: FEED_URL is unset or https://x/feed, --feed-url is not given
\* or https://y/feed
ExpectedFeedURL ==
    IF args.feedURL = "https://y/feed" THEN "https://y/feed"
    ELSE IF environ.FEED_URL = "https://x/feed" THEN "https://x/feed"
    ELSE ""

\* C31: once Run has resolved it, the feed URL is that of --feed-url when
\* the flag is not empty and that of FEED_URL otherwise; when it is empty
\* the process has ended with the database unopened, nothing fetched and
\* nothing tooted or stored; and Run goes past that point only with a feed
\* URL that is not empty.
C31_FeedURL ==
    /\ ev.op = "feedURL" => feedURL = ExpectedFeedURL
    /\ (ev.op = "feedURL" /\ ExpectedFeedURL = "")
           => /\ ~ev.ok
              /\ pc = "exited"
              /\ db = "nil" /\ ~tableExists
              /\ fetches = 0
              /\ notified = {} /\ tooted_posts = {}
    /\ (pc \in {"InitDB", "settings"} \/ InLoop)
           => (feedURL = ExpectedFeedURL /\ feedURL # "")

\* C31 witness: with FEED_URL unset and no --feed-url, the process started
\* a second time has ended on the empty feed URL
C31_Witness ==
    /\ environ.FEED_URL = "" /\ args.feedURL = ""
    /\ ev.op = "feedURL" /\ ~ev.ok
    /\ pc = "exited"
    /\ starts = 2

====
